---- MODULE Spec2Model ----
(***************************************************************************)
(* Model of src/main.py: the outfit catalogue service.  The state is the   *)
(* process-wide FAISS index and metadata list, the files the handlers read *)
(* and write (image directory, image_comments.json, faiss_index.index,     *)
(* metadata.json) and the add_item handlers suspended at their await.      *)
(* Vectors are pairs of integers, distances are squared L2 distances.      *)
(***************************************************************************)
EXTENDS Integers, Sequences, FiniteSets, TLC

\* ------------------------------------------------------------------ bounds
MaxItems == 2
MaxK == 3
MaxPending == 2
MaxDetections == 3

\* ------------------------------------------------- inputs of the requests
Filenames == {"a.jpg", "b.jpg"}
\* the form of an /add-item request: image bytes, comment, and the tags
\* string as the pieces between its commas
Uploads == {[data |-> <<1>>, comment |-> "c1", tags |-> <<"">>],
            [data |-> <<2, 2>>, comment |-> "c2", tags |-> <<"t", " ">>]}
\* the form of a /search request: image bytes and the optional comment
Queries == {[data |-> <<1>>, comment |-> ""],
            [data |-> <<2, 2>>, comment |-> "c1"]}
Handlers == 1..MaxPending

\* numpy float32 max, the distance FAISS pads missing neighbours with, and
\* the float +inf a caller may pass as max_distance
FltMax == 1000
Infinity == 1001
DefaultMaxDistance == 4
MaxDistances == {DefaultMaxDistance, Infinity}
Ks == 1..MaxK

VARIABLES
    images,         \* IMAGE_DIR: filename -> [exists, data]
    commentsFile,   \* COMMENTS_FILE: [exists, data], data an ordered dict
    index,          \* the global FAISS index: sequence of vectors
    metadata,       \* the global metadata list
    indexFile,      \* INDEX_PATH: [exists, data]
    metadataFile,   \* metadata.json: [exists, data]
    pending,        \* add_item handlers suspended at `await image.read()`
    last,           \* the outcome of the last completed call
    deleted,        \* filenames passed to delete_item and not added since
    added,          \* items whose add_item returned success since the last
                    \* call of another mutating handler or restart
    overlap,        \* two add_item handlers have been in flight together
                    \* since then
    components,     \* analyze_outfit: the detections of segment_clothing
    pos,            \* analyze_outfit: loop position
    category_tracker, \* analyze_outfit: ordered dict category -> component
    output          \* analyze_outfit: [returned, value]

storeVars == <<images, commentsFile, index, metadata, indexFile, metadataFile>>
histVars == <<last, deleted, added, overlap>>
analyzeVars == <<components, pos, category_tracker, output>>
vars == <<images, commentsFile, index, metadata, indexFile, metadataFile,
          pending, last, deleted, added, overlap,
          components, pos, category_tracker, output>>

\* ----------------------------------------------------------------- files
Absent == [exists |-> FALSE, data |-> <<>>]
File(d) == [exists |-> TRUE, data |-> d]

Store == [images |-> images, comments |-> commentsFile, index |-> index,
          metadata |-> metadata, indexFile |-> indexFile,
          metadataFile |-> metadataFile]

Range(s) == {s[i] : i \in 1..Len(s)}

RECURSIVE SeqSum(_)
SeqSum(s) == IF s = <<>> THEN 0 ELSE Head(s) + SeqSum(Tail(s))

RECURSIVE Filter(_, _)
\* [item for item in s if item.filename != f]
Filter(s, f) ==
    IF s = <<>> THEN <<>>
    ELSE IF Head(s).filename = f THEN Filter(Tail(s), f)
         ELSE <<Head(s)>> \o Filter(Tail(s), f)

\* ------------------------------------------------------------- embedding
\* t.strip()
Strip(t) == CASE t = " " -> ""
              [] t = " t" -> "t"
              [] t = "t " -> "t"
              [] OTHER -> t

RECURSIVE TagList(_)
\* [t.strip() for t in tags.split(",") if t.strip()]
TagList(pieces) ==
    IF pieces = <<>> THEN <<>>
    ELSE IF Strip(Head(pieces)) = "" THEN TagList(Tail(pieces))
         ELSE <<Strip(Head(pieces))>> \o TagList(Tail(pieces))

\* f"{comment} {' '.join(tags)}", as the sequence of its words
CombinedText(comment, tags) == <<comment>> \o tags

WordCode(w) == CASE w = "c1" -> 1
                 [] w = "c2" -> 2
                 [] w = "t" -> 4
                 [] OTHER -> 0

RECURSIVE TextCode(_)
TextCode(text) == IF text = <<>> THEN 0
                  ELSE WordCode(Head(text)) + TextCode(Tail(text))

\* Image.open(image_path): the exception it raises, "none" when it decodes
OpenError(file) ==
    IF ~file.exists THEN "FileNotFoundError:image"
    ELSE IF file.data = <<>> THEN "UnidentifiedImageError"
    ELSE "none"

\* the CLIP embedding of (image, text): a deterministic function of both
process_image_text_pair(data, text) == <<SeqSum(data), TextCode(text)>>

\* the image-only query embedding
ImageEmbedding(data) == <<SeqSum(data), 0>>

ItemEmbedding(imgs, item) ==
    process_image_text_pair(imgs[item.filename].data,
                            CombinedText(item.comment, item.tags))

ItemOpenError(imgs, item) == OpenError(imgs[item.filename])

\* -------------------------------------------------- image_comments.json
Keys(cd) == {cd[i].filename : i \in 1..Len(cd)}

Item(f, comment, tags) == [filename |-> f, comment |-> comment, tags |-> tags]

\* comments_data[filename] = {...}: a key already present keeps its place
Upsert(cd, f, comment, tags) ==
    IF f \in Keys(cd)
    THEN [i \in 1..Len(cd) |->
            IF cd[i].filename = f THEN Item(f, comment, tags) ELSE cd[i]]
    ELSE Append(cd, Item(f, comment, tags))

\* f.write(data) through a handle opened "wb" before the await: the bytes
\* land at offset 0 of whatever the file holds by then
Overlay(data, cur) ==
    IF Len(cur) <= Len(data) THEN data
    ELSE data \o SubSeq(cur, Len(data) + 1, Len(cur))

RECURSIVE FirstError(_, _)
\* the exception of the first item whose image does not decode
FirstError(imgs, items) ==
    IF items = <<>> THEN "none"
    ELSE IF ItemOpenError(imgs, Head(items)) # "none"
         THEN ItemOpenError(imgs, Head(items))
         ELSE FirstError(imgs, Tail(items))

Embeddings(imgs, items) ==
    [i \in 1..Len(items) |-> ItemEmbedding(imgs, items[i])]

\* ---------------------------------------------------------------- add_item
\* open(image_path, "wb"): creates the file or truncates it
AddOpen(S, f) == [S EXCEPT !.images[f] = File(<<>>)]

\* index.add(np.array([emb]))
IndexAdd(idx, emb) == Append(idx, emb)

\* metadata.append({...})
MetadataAppend(md, item) == Append(md, item)

LoadComments_empty(file) == <<>>

\* comments_data = {} unless COMMENTS_FILE exists, then its contents
LoadComments(file) == IF file.exists THEN file.data ELSE <<>>

\* add_item from the write of the image to the return: no await in between
AddRest(S, req) ==
    LET f == req.filename
        imgs == IF req.linked
                THEN [S.images EXCEPT ![f] = File(Overlay(req.data, @.data))]
                ELSE S.images
        tag_list == TagList(req.tags)
        cd == Upsert(LoadComments(S.comments), f, req.comment, tag_list)
        S1 == [S EXCEPT !.images = imgs, !.comments = File(cd)]
        exc == OpenError(imgs[f])
        emb == process_image_text_pair(imgs[f].data,
                                       CombinedText(req.comment, tag_list))
        idx == IndexAdd(S.index, emb)
        md == MetadataAppend(S.metadata, Item(f, req.comment, tag_list))
    IN  IF exc # "none" THEN [st |-> S1, exc |-> exc]
        ELSE [st |-> [S1 EXCEPT !.index = idx, !.metadata = md,
                                !.indexFile = File(idx),
                                !.metadataFile = File(md)],
              exc |-> "none"]

\* ----------------------------------------------------------- rebuild_index
FreshIndex_keep(idx) == idx

\* index = faiss.IndexFlatL2(EMBEDDING_DIM)
FreshIndex(idx) == <<>>

\* the catalogue entries whose image file exists, in dict order
RECURSIVE Present(_, _)
Present(imgs, cd) ==
    IF cd = <<>> THEN <<>>
    ELSE IF imgs[Head(cd).filename].exists
         THEN <<Head(cd)>> \o Present(imgs, Tail(cd))
         ELSE Present(imgs, Tail(cd))

RebuildOp(S) ==
    LET S0 == [S EXCEPT !.index = FreshIndex(S.index), !.metadata = <<>>]
        new_metadata == Present(S.images, S.comments.data)
        exc == FirstError(S.images, new_metadata)
        embeddings == Embeddings(S.images, new_metadata)
        idx == S0.index \o embeddings
    IN  IF ~S.comments.exists THEN [st |-> S0, exc |-> "none"]
        ELSE IF exc # "none" THEN [st |-> S0, exc |-> exc]
        ELSE IF embeddings # <<>>
             THEN [st |-> [S0 EXCEPT !.index = idx,
                                     !.indexFile = File(idx),
                                     !.metadataFile = File(new_metadata),
                                     !.metadata = new_metadata],
                   exc |-> "none"]
             ELSE [st |-> [S0 EXCEPT !.metadata = new_metadata],
                   exc |-> "none"]

\* ------------------------------------------------------------- delete_item
DeleteIndex_keep(idx, embeddings) == idx \o embeddings

\* the index after index.reset() and index.add(np.array(embeddings))
DeleteIndex(idx, embeddings) == embeddings

DeleteMetadata_keep(md, f) == md

\* metadata = [item for item in metadata if item['filename'] != filename]
DeleteMetadata(md, f) == Filter(md, f)

DeleteCatch_KeyError(exc) == IF exc = "KeyError" THEN "error" ELSE "raised"

\* `except Exception as e: return {"error": str(e)}`
DeleteCatch(exc) == "error"

DeleteOp(S, f) ==
    LET S1 == [S EXCEPT !.images[f] = Absent]
        cd == Filter(S.comments.data, f)
        md == DeleteMetadata(S.metadata, f)
        S2 == [S1 EXCEPT !.comments = File(cd), !.metadata = md,
                         !.metadataFile = File(md), !.index = <<>>]
        exc == FirstError(S1.images, md)
        idx == DeleteIndex(S.index, Embeddings(S1.images, md))
    IN  IF ~S.comments.exists
        THEN [st |-> S1, exc |-> "FileNotFoundError:image_comments.json"]
        ELSE IF f \notin Keys(S.comments.data)
        THEN [st |-> S1, exc |-> "KeyError"]
        ELSE IF md = <<>> THEN [st |-> S2, exc |-> "none"]
        ELSE IF exc # "none" THEN [st |-> S2, exc |-> exc]
        ELSE [st |-> [S2 EXCEPT !.index = idx, !.indexFile = File(idx)],
              exc |-> "none"]

\* ------------------------------------------------------------ search_image
Dist(u, v) == (u[1] - v[1]) * (u[1] - v[1]) + (u[2] - v[2]) * (u[2] - v[2])

\* index.search(query_emb, k): the k nearest (distance, position) pairs in
\* ascending order, equal distances by position; FAISS fills the places it
\* has no vector for with distance float-max and position -1
FaissSearch(idx, q, k) ==
    LET n == Len(idx)
        Before(i, j) == \/ Dist(idx[i], q) < Dist(idx[j], q)
                        \/ Dist(idx[i], q) = Dist(idx[j], q) /\ i < j
        Rank(j) == Cardinality({i \in 1..n : Before(i, j)})
        At(p) == CHOOSE j \in 1..n : Rank(j) = p - 1
    IN  [p \in 1..k |->
            IF p <= n THEN [d |-> Dist(idx[At(p)], q), idx |-> At(p) - 1]
            ELSE [d |-> FltMax, idx |-> -1]]

\* the `if d <= max_distance and idx < len(metadata)` of the comprehension
Keep(hit, max_distance, md) ==
    hit.d <= max_distance /\ hit.idx < Len(md)

\* metadata[idx] of a Python list, as a 1-based position; 0 is IndexError
PyIndex(i, n) == IF i >= 0 /\ i < n THEN i + 1
                 ELSE IF i < 0 /\ i >= -n THEN n + i + 1
                 ELSE 0

QueryEmbedding(img, comment) ==
    IF comment # "" THEN process_image_text_pair(img, <<comment>>)
    ELSE ImageEmbedding(img)

SearchOp(S, q, k, max_distance) ==
    LET hits == FaissSearch(S.index, q, k)
        kept == SelectSeq(hits, LAMBDA h : Keep(h, max_distance, S.metadata))
        at == [i \in 1..Len(kept) |-> PyIndex(kept[i].idx, Len(S.metadata))]
    IN  IF \E i \in 1..Len(at) : at[i] = 0
        THEN [exc |-> "IndexError", result |-> <<>>, positions |-> <<>>,
              distances |-> <<>>]
        ELSE [exc |-> "none",
              result |-> [i \in 1..Len(at) |-> S.metadata[at[i]]],
              positions |-> at,
              distances |-> [i \in 1..Len(kept) |-> kept[i].d]]

\* --------------------------------------------------------- analyze_outfit
excluded_categories ==
    {"headband, head covering, hair accessory", "hood", "collar", "lapel",
     "epaulette", "sleeve", "pocket", "neckline", "buckle", "zipper",
     "applique", "bead", "bow", "flower", "fringe", "ribbon", "rivet",
     "ruffle", "sequin", "tassel"}

\* confidences in hundredths: 0.75 is 75
ConfidenceThreshold == 75

Categories == {"shirt", "pants", "sleeve"}
Confidences == {50, 74, 75, 90}
Detections == [category : Categories, confidence : Confidences]

RECURSIVE SeqsUpTo(_, _)
SeqsUpTo(S, n) ==
    IF n = 0 THEN {<<>>}
    ELSE SeqsUpTo(S, n - 1) \cup
         {Append(s, x) : s \in {t \in SeqsUpTo(S, n - 1) : Len(t) = n - 1},
                         x \in S}

TrackerKeys(tr) == {tr[i].category : i \in 1..Len(tr)}

TrackerGet(tr, c) == tr[CHOOSE i \in 1..Len(tr) : tr[i].category = c]

\* category_tracker[current_category] = {...}
TrackerSet(tr, entry) ==
    IF entry.category \in TrackerKeys(tr)
    THEN [i \in 1..Len(tr) |->
            IF tr[i].category = entry.category THEN entry ELSE tr[i]]
    ELSE Append(tr, entry)

\* `comp['confidence'] >= 0.75 and comp['category'] not in excluded_categories`
Passes(comp) ==
    comp.confidence >= ConfidenceThreshold
    /\ comp.category \notin excluded_categories

Replaces_always(tr, comp) == TRUE

\* `current_category not in category_tracker or current_conf > ...`
Replaces(tr, comp) ==
    \/ comp.category \notin TrackerKeys(tr)
    \/ comp.confidence > TrackerGet(tr, comp.category).confidence

\* ------------------------------------------------------------------- state
Idle == [busy |-> FALSE, filename |-> "", data |-> <<>>, comment |-> "",
         tags |-> <<>>, linked |-> FALSE]

NoResult == [op |-> "start", status |-> "ok", exc |-> "none", filename |-> "",
             k |-> 0, max_distance |-> 0, query |-> <<0, 0>>,
             result |-> <<>>, positions |-> <<>>, distances |-> <<>>]

InFlight == {h \in Handlers : pending[h].busy}

InitStore ==
    /\ images = [f \in Filenames |-> Absent]
    /\ commentsFile = Absent
    /\ index = <<>>
    /\ metadata = <<>>
    /\ indexFile = Absent
    /\ metadataFile = Absent
    /\ pending = [h \in Handlers |-> Idle]
    /\ last = NoResult
    /\ deleted = {}
    /\ added = {}
    /\ overlap = FALSE

InitAnalysis ==
    /\ pos = 0
    /\ category_tracker = <<>>
    /\ output = [returned |-> FALSE, value |-> <<>>]

Init == InitStore /\ InitAnalysis /\ components = <<>>

InitAnalyze ==
    InitStore /\ InitAnalysis
    /\ components \in SeqsUpTo(Detections, MaxDetections)

Commit(S) ==
    /\ images' = S.images
    /\ commentsFile' = S.comments
    /\ index' = S.index
    /\ metadata' = S.metadata
    /\ indexFile' = S.indexFile
    /\ metadataFile' = S.metadataFile

Status(exc) == IF exc = "none" THEN "ok" ELSE "raised"

\* ----------------------------------------------------------------- actions
\* add_item up to `await image.read()`: the image file is open for writing
AddBegin(h, f, data, comment, tags) ==
    /\ ~pending[h].busy
    /\ \A g \in Handlers : g < h => pending[g].busy
    /\ Len(metadata) + Cardinality(InFlight) < MaxItems
    /\ Len(index) + Cardinality(InFlight) < MaxItems
    /\ Commit(AddOpen(Store, f))
    /\ pending' = [pending EXCEPT ![h] =
                     [busy |-> TRUE, filename |-> f, data |-> data,
                      comment |-> comment, tags |-> tags, linked |-> TRUE]]
    /\ overlap' = (overlap \/ InFlight # {})
    /\ UNCHANGED <<last, deleted, added, analyzeVars>>

\* add_item from the await to its return
AddFinish(h) ==
    /\ pending[h].busy
    /\ LET req == pending[h]
           r == AddRest(Store, req)
           item == Item(req.filename, req.comment, TagList(req.tags))
       IN  /\ Commit(r.st)
           /\ last' = [NoResult EXCEPT !.op = "add", !.status = Status(r.exc),
                                       !.exc = r.exc,
                                       !.filename = req.filename]
           /\ deleted' = IF r.exc = "none" THEN deleted \ {req.filename}
                         ELSE deleted
           /\ added' = IF r.exc = "none" THEN added \cup {item} ELSE added
    /\ pending' = [pending EXCEPT ![h] = Idle]
    /\ UNCHANGED <<overlap, analyzeVars>>

RebuildIndex ==
    /\ LET r == RebuildOp(Store)
       IN  /\ Commit(r.st)
           /\ last' = [NoResult EXCEPT !.op = "rebuild",
                                       !.status = Status(r.exc),
                                       !.exc = r.exc]
    /\ added' = {}
    /\ overlap' = FALSE
    /\ UNCHANGED <<pending, deleted, analyzeVars>>

DeleteItem(f) ==
    /\ LET r == DeleteOp(Store, f)
       IN  /\ Commit(r.st)
           /\ last' = [NoResult EXCEPT
                         !.op = "delete",
                         !.status = IF r.exc = "none" THEN "ok"
                                    ELSE DeleteCatch(r.exc),
                         !.exc = r.exc, !.filename = f]
    \* os.remove(image_path) leaves the handles open on the file writing
    \* to an inode no path names
    /\ pending' = [h \in Handlers |->
                     IF pending[h].busy /\ pending[h].filename = f
                     THEN [pending[h] EXCEPT !.linked = FALSE]
                     ELSE pending[h]]
    /\ deleted' = deleted \cup {f}
    /\ added' = {}
    /\ overlap' = FALSE
    /\ UNCHANGED analyzeVars

Search(img, comment, k, max_distance) ==
    /\ LET q == QueryEmbedding(img, comment)
           r == SearchOp(Store, q, k, max_distance)
       IN  last' = [op |-> "search", status |-> Status(r.exc),
                    exc |-> r.exc, filename |-> "", k |-> k,
                    max_distance |-> max_distance, query |-> q,
                    result |-> r.result, positions |-> r.positions,
                    distances |-> r.distances]
    /\ UNCHANGED <<storeVars, pending, deleted, added, overlap, analyzeVars>>

\* process start: lines 116-122
Restart ==
    /\ indexFile.exists => metadataFile.exists
    /\ index' = IF indexFile.exists THEN indexFile.data ELSE <<>>
    /\ metadata' = IF indexFile.exists THEN metadataFile.data ELSE <<>>
    /\ pending' = [h \in Handlers |-> Idle]
    /\ last' = [NoResult EXCEPT !.op = "restart"]
    /\ added' = {}
    /\ overlap' = FALSE
    /\ UNCHANGED <<images, commentsFile, indexFile, metadataFile,
                   deleted, analyzeVars>>

\* one iteration of `for comp in components`
AnalyzeStep ==
    /\ ~output.returned
    /\ pos < Len(components)
    /\ LET comp == components[pos + 1]
       IN  category_tracker' =
             IF Passes(comp) /\ Replaces(category_tracker, comp)
             THEN TrackerSet(category_tracker,
                             [category |-> comp.category,
                              confidence |-> comp.confidence,
                              segment_path |-> pos + 1])
             ELSE category_tracker
    /\ pos' = pos + 1
    /\ UNCHANGED <<storeVars, pending, histVars, components, output>>

\* output = list(category_tracker.values()); return output
AnalyzeReturn ==
    /\ ~output.returned
    /\ pos = Len(components)
    /\ output' = [returned |-> TRUE, value |-> category_tracker]
    /\ UNCHANGED <<storeVars, pending, histVars, components, pos,
                   category_tracker>>

\* ---------------------------------------------------------- specifications
SomeAddBegin ==
    \E h \in Handlers, f \in Filenames, up \in Uploads :
        AddBegin(h, f, up.data, up.comment, up.tags)

SomeAddFinish == \E h \in Handlers : AddFinish(h)

SomeDeleteItem == \E f \in Filenames : DeleteItem(f)

SomeSearch ==
    \E qr \in Queries, k \in Ks, max_distance \in MaxDistances :
        Search(qr.data, qr.comment, k, max_distance)

\* one request at a time, each run to completion, the process never
\* restarted
NextSeq ==
    \/ InFlight = {} /\ SomeAddBegin
    \/ SomeAddFinish
    \/ InFlight = {} /\ RebuildIndex
    \/ InFlight = {} /\ SomeDeleteItem
    \/ InFlight = {} /\ SomeSearch

SpecSeq == Init /\ [][NextSeq]_vars

\* one request at a time, the process restarted between requests
Next ==
    \/ InFlight = {} /\ SomeAddBegin
    \/ SomeAddFinish
    \/ InFlight = {} /\ RebuildIndex
    \/ InFlight = {} /\ SomeDeleteItem
    \/ InFlight = {} /\ SomeSearch
    \/ InFlight = {} /\ Restart

Spec == Init /\ [][Next]_vars

\* mutating requests served by the one event loop: an add_item suspended
\* at its await lets any other handler run
NextConc ==
    \/ SomeAddBegin
    \/ SomeAddFinish
    \/ RebuildIndex
    \/ SomeDeleteItem

SpecConc == Init /\ [][NextConc]_vars

\* concurrent add_item requests only
NextAdd ==
    \/ SomeAddBegin
    \/ SomeAddFinish

SpecAdd == Init /\ [][NextAdd]_vars

NextAnalyze ==
    \/ AnalyzeStep
    \/ AnalyzeReturn

SpecAnalyze == InitAnalyze /\ [][NextAnalyze]_vars

\* ------------------------------------------------------------ properties
Mutating == {"add", "rebuild", "delete"}

Succeeded == last.op \in Mutating /\ last.status = "ok"

LoadedIndex == IF indexFile.exists THEN indexFile.data ELSE <<>>
LoadedMetadata == IF indexFile.exists THEN metadataFile.data ELSE <<>>

\* C2: after every successful mutating operation the index file and the
\* metadata file hold the in-memory index and metadata, so that a restart
\* loads what was in memory before it.
C2_DiskMirrorsMemory ==
    Succeeded => LoadedIndex = index /\ LoadedMetadata = metadata

IsPermutation(s, n) ==
    Len(s) = n /\ \A p \in 1..n : \E i \in 1..Len(s) : s[i] = p

Ascending(s) == \A i \in 1..Len(s) - 1 : s[i] <= s[i + 1]

SearchedAll ==
    /\ last.op = "search"
    /\ last.max_distance = Infinity
    /\ last.k >= Len(metadata)

\* C3: a search with max_distance = +infinity and k >= len(metadata)
\* returns every item of the metadata list exactly once, nearest first, and
\* nothing else (stated for a catalogue that is not empty; the empty one is
\* C4's).
C3_SearchReturnsAll ==
    SearchedAll /\ metadata # <<>> =>
        /\ last.status = "ok"
        /\ IsPermutation(last.positions, Len(metadata))
        /\ Ascending(last.distances)

\* C4: a search on an empty catalogue returns the empty list and raises
\* nothing, whatever k and max_distance.
C4_EmptySearch ==
    last.op = "search" /\ index = <<>> /\ metadata = <<>> =>
        last.status = "ok" /\ last.result = <<>>

\* C5: rebuild_index is idempotent: with the Catalog Store and the images
\* as the first call left them, a second call leaves the index, the metadata
\* and both files as they are and ends as the first did.
C5_RebuildIdempotent ==
    last.op = "rebuild" /\ InFlight = {} =>
        /\ RebuildOp(Store).st = Store
        /\ RebuildOp(Store).exc = last.exc

C5_Witness ==
    /\ last.op = "rebuild" /\ InFlight = {}
    /\ Len(metadata) >= 2
    /\ indexFile.data = index

\* C6: once delete_item(f) has been called, no search returns an item
\* named f until add_item adds f again.
C6_DeletedNeverFound ==
    \A qr \in Queries, k \in Ks, max_distance \in MaxDistances :
        LET r == SearchOp(Store, QueryEmbedding(qr.data, qr.comment), k,
                          max_distance)
        IN  \A i \in 1..Len(r.result) : r.result[i].filename \notin deleted

C6_Witness ==
    /\ last.op = "search"
    /\ last.result # <<>>
    /\ deleted # {}
    /\ \A i \in 1..Len(last.result) : last.result[i].filename \notin deleted

CategoryMax(c) ==
    CHOOSE m \in Confidences :
        /\ \E i \in 1..Len(components) :
              components[i].category = c /\ components[i].confidence = m
        /\ \A i \in 1..Len(components) :
              components[i].category = c => components[i].confidence <= m

\* C7: analyze_outfit returns no two components of one category, none with
\* confidence below 0.75, none of an excluded category, and for each
\* category it returns the highest confidence detected for it.
C7_AnalyzeOutfit ==
    output.returned =>
        /\ \A i, j \in 1..Len(output.value) :
              output.value[i].category = output.value[j].category => i = j
        /\ \A i \in 1..Len(output.value) :
              /\ output.value[i].confidence >= ConfidenceThreshold
              /\ output.value[i].category \notin excluded_categories
              /\ \E n \in 1..Len(components) :
                    components[n].category = output.value[i].category
              /\ output.value[i].confidence =
                    CategoryMax(output.value[i].category)

C7_Witness ==
    /\ output.returned
    /\ Len(components) = 3
    /\ Len(output.value) = 1
    /\ components[1].category = components[2].category
    /\ components[1].confidence > components[2].confidence
    /\ components[2].confidence >= ConfidenceThreshold
    /\ output.value[1].confidence = components[1].confidence

\* C8: add_item of a filename already catalogued appends no duplicate: the
\* metadata list holds at most one entry per filename.
C8_OneEntryPerFilename ==
    \A i, j \in 1..Len(metadata) :
        metadata[i].filename = metadata[j].filename => i = j

Lost(it) ==
    \/ it.filename \notin Keys(commentsFile.data)
    \/ it \notin Range(metadata)

\* C9 as stated: two add_item requests handled concurrently interleave so
\* that, once both have returned, an added item is missing from the Catalog
\* Store or from the metadata, or the index and the metadata differ in
\* length.
C9_ConcurrentAddsLose ==
    overlap /\ InFlight = {} =>
        \/ \E it \in added : Lost(it)
        \/ Len(index) # Len(metadata)

\* C9 amended: add_item handlers interleave only at the await that precedes
\* their read-modify-write, so however add_item requests overlap no added
\* item is missing from the Catalog Store or the metadata and the index and
\* the metadata agree in length.
C9_ConcurrentAddsKeepAll ==
    /\ \A it \in added : ~Lost(it)
    /\ Len(index) = Len(metadata)

C9_Witness ==
    /\ overlap /\ InFlight = {}
    /\ Cardinality(added) = 2
    /\ Len(metadata) = 2

EarlyFailures == {"FileNotFoundError:image_comments.json", "KeyError"}

\* C10: delete_item never raises: a failing step yields an error payload,
\* and a failure before the Catalog Store is rewritten leaves the Catalog
\* Store, the metadata and the index as they were.
C10_DeleteReportsErrors ==
    [][\A f \in Filenames :
          DeleteItem(f) =>
              /\ last'.status \in {"ok", "error"}
              /\ last'.exc # "none" => last'.status = "error"
              /\ last'.exc \in EarlyFailures =>
                    /\ commentsFile' = commentsFile
                    /\ metadata' = metadata
                    /\ index' = index]_vars

C10_Witness ==
    /\ last.op = "delete"
    /\ last.status = "error"
    /\ last.exc = "KeyError"
    /\ metadata # <<>>

====
